---- MODULE Spec2Model ----
(***************************************************************************)
(* A model of the path-planning engine of the autonomous delivery agent:   *)
(* the Grid world model (src/src/environment.py) and the four planners     *)
(* BFS, UCS, A* and Simulated Annealing (src/src/planners.py).             *)
(*                                                                         *)
(* One behaviour is one planning session: a Grid is set up, a query        *)
(* (start, goal, start_time) is fixed, and plan() of BFSPlanner,           *)
(* UCSPlanner and SimulatedAnnealingPlanner is called on it in turn, as    *)
(* the experiment loop over the algorithms does.  The A* call is the one   *)
(* SimulatedAnnealingPlanner.plan makes first (planners.py:302-303), an    *)
(* AStarPlanner with the default heuristic.  One step of the model is one  *)
(* iteration of the planner's loop.                                        *)
(***************************************************************************)
EXTENDS Integers, Sequences, FiniteSets, TLC

VARIABLES
    grid,              \* Grid.grid: grid[y][x] is a CellType value
    terrain,           \* Grid.terrain: terrain[y][x] is a TerrainType value
    moving_obstacles,  \* Grid.moving_obstacles: sequence of MovingObstacle
    query,             \* the arguments of plan()
    pc,                \* the plan() call in progress
    queue,             \* BFSPlanner.plan: the deque of nodes
    priority_queue,    \* UCSPlanner.plan / AStarPlanner.plan: the heap array
    visited,           \* the visited set of the search in progress
    current_path,      \* SimulatedAnnealingPlanner.plan: current_path
    current_cost,      \* SimulatedAnnealingPlanner.plan: current_cost
    iteration,         \* SimulatedAnnealingPlanner.plan: loop index i
    coolings,          \* number of times temperature was multiplied by cooling_rate
    is_valid_calls,    \* number of Grid.is_valid calls made by the call in progress
    result,            \* what each finished plan() call returned
    api_grid,          \* DeliveryAPI.grid: <<>> (None) or <<the Grid object>>
    response,          \* what the last call of the session returned or raised
    sa_planner,        \* <<>> or <<the SimulatedAnnealingPlanner constructed>>
    agent,             \* <<>> or <<the DeliveryAgent of the session>>
    mission            \* the call of the agent in progress, and its caller

vars == <<grid, terrain, moving_obstacles, query, pc, queue, priority_queue,
          visited, current_path, current_cost, iteration, coolings,
          is_valid_calls, result, api_grid, response, sa_planner, agent,
          mission>>

---------------------------------------------------------------------------
(* Bounds of the model *)

Width == 3
Height == 3
\* plan() is followed until it dequeues a node MaxDepth moves after the start
MaxDepth == 18
MaxStartTime == 1
\* SimulatedAnnealingPlanner.max_iterations
MaxIterations == 2

---------------------------------------------------------------------------
(* environment.py: TerrainType, CellType, Direction *)

ROAD == 1
GRASS == 3
MUD == 5
WATER == 10
TerrainType == {ROAD, GRASS, MUD, WATER}

EMPTY == 0
OBSTACLE == 1

UP == <<0, -1>>
DOWN == <<0, 1>>
LEFT == <<-1, 0>>
RIGHT == <<1, 0>>
\* Direction.get_all()
get_all == <<UP, DOWN, LEFT, RIGHT>>

Xs == 0 .. (Width - 1)
Ys == 0 .. (Height - 1)
Cells == Xs \X Ys

---------------------------------------------------------------------------
(* environment.py: MovingObstacle *)

\* MovingObstacle.__init__
MovingObstacle(x, y, path, speed) ==
    [x |-> x, y |-> y, path |-> path, current_step |-> 0,
     speed |-> speed, step_counter |-> 0]

\* MovingObstacle.move; with an empty path the '%' raises after the counter
\* was reset
move(obstacle) ==
    LET step_counter == obstacle.step_counter + 1
    IN  IF step_counter >= obstacle.speed
        THEN IF Len(obstacle.path) = 0
             THEN [obstacle EXCEPT !.step_counter = 0]
             ELSE LET current_step ==
                          (obstacle.current_step + 1) % Len(obstacle.path)
                  IN  [obstacle EXCEPT !.step_counter = 0,
                                       !.current_step = current_step,
                                       !.x = obstacle.path[current_step + 1][1],
                                       !.y = obstacle.path[current_step + 1][2]]
        ELSE [obstacle EXCEPT !.step_counter = step_counter]

\* the ZeroDivisionError of 'len(self.path)' = 0 in MovingObstacle.move
move_raises(obstacle) ==
    obstacle.step_counter + 1 >= obstacle.speed /\ Len(obstacle.path) = 0

\* MovingObstacle.get_position_at_time
\* a prediction that stops at the last waypoint
get_position_clamped(obstacle, time_step) ==
    LET predicted_step == obstacle.current_step + time_step
    IN  obstacle.path[IF predicted_step < Len(obstacle.path)
                      THEN predicted_step + 1 ELSE Len(obstacle.path)]

get_position_at_time(obstacle, time_step) ==
    LET predicted_step == (obstacle.current_step + time_step) % Len(obstacle.path)
    IN  obstacle.path[predicted_step + 1]

\* the ZeroDivisionError of 'len(self.path)' = 0 in get_position_at_time
get_position_raises(obstacle) == Len(obstacle.path) = 0

---------------------------------------------------------------------------
(* environment.py: Grid *)

\* the loop over self.moving_obstacles in Grid.is_valid, from index i on
RECURSIVE no_obstacle_at(_, _, _, _, _)
no_obstacle_at(obstacles, i, x, y, time_step) ==
    IF i > Len(obstacles) THEN TRUE
    ELSE LET pred == get_position_at_time(obstacles[i], time_step)
         IN  IF x = pred[1] /\ y = pred[2] THEN FALSE
             ELSE no_obstacle_at(obstacles, i + 1, x, y, time_step)

\* Grid.is_valid on the grid g = [width, height, grid, moving_obstacles]
\* a bounds check that starts one column in
is_valid_right_of_first(g, x, y, time_step) ==
    IF ~(0 < x /\ x < g.width /\ 0 <= y /\ y < g.height) THEN FALSE
    ELSE IF g.grid[y][x] = OBSTACLE THEN FALSE
    ELSE no_obstacle_at(g.moving_obstacles, 1, x, y, time_step)

\* a check of the bounds and the moving obstacles only
is_valid_without_static(g, x, y, time_step) ==
    IF ~(0 <= x /\ x < g.width /\ 0 <= y /\ y < g.height) THEN FALSE
    ELSE no_obstacle_at(g.moving_obstacles, 1, x, y, time_step)

is_valid_on(g, x, y, time_step) ==
    IF ~(0 <= x /\ x < g.width /\ 0 <= y /\ y < g.height) THEN FALSE
    ELSE IF g.grid[y][x] = OBSTACLE THEN FALSE
    ELSE no_obstacle_at(g.moving_obstacles, 1, x, y, time_step)

\* self.grid of the planners: the Grid object of the session
TheGrid ==
    [width |-> Width, height |-> Height, grid |-> grid,
     moving_obstacles |-> moving_obstacles]

is_valid(x, y, time_step) == is_valid_on(TheGrid, x, y, time_step)

\* Grid.get_cost
\* a lookup in the array of cell types in place of the array of terrain
cell_type(x, y) == grid[y][x]

get_cost(x, y) == terrain[y][x]

\* Grid.add_obstacle
add_obstacle(g, x, y) == [g EXCEPT ![y][x] = OBSTACLE]

\* Grid.set_terrain
set_terrain(t, x, y, terrain_type) == [t EXCEPT ![y][x] = terrain_type]

\* Grid.__init__: np.zeros for the cells, ROAD for the terrain
InitialCells == [y \in Ys |-> [x \in Xs |-> EMPTY]]
InitialTerrain == [y \in Ys |-> [x \in Xs |-> ROAD]]

\* Grid.__init__(width, height): the object with its arrays of 'height' rows
\* and 'width' columns
Grid(width, height) ==
    [width |-> width, height |-> height,
     grid |-> [y \in 0 .. (height - 1) |-> [x \in 0 .. (width - 1) |-> EMPTY]],
     terrain |-> [y \in 0 .. (height - 1) |-> [x \in 0 .. (width - 1) |-> ROAD]],
     moving_obstacles |-> <<>>]

\* np.zeros and np.full raise ValueError for a negative dimension, and for
\* no other
Grid_raises(width, height) == width < 0 \/ height < 0

\* Grid.add_moving_obstacle
add_moving_obstacle(g, obstacle) ==
    [g EXCEPT !.moving_obstacles = Append(@, obstacle)]

\* Grid.update_moving_obstacles from obstacle i on: the loop ends at the first
\* move() that raises
RECURSIVE update_moving_obstacles(_, _)
update_moving_obstacles(obstacles, i) ==
    IF i > Len(obstacles) THEN [moving_obstacles |-> obstacles, raised |-> FALSE]
    ELSE LET moved == [obstacles EXCEPT ![i] = move(obstacles[i])]
         IN  IF move_raises(obstacles[i])
             THEN [moving_obstacles |-> moved, raised |-> TRUE]
             ELSE update_moving_obstacles(moved, i + 1)

\* whether Grid.is_valid raises: it reaches, from obstacle i on, an obstacle
\* whose prediction raises before one that is predicted at (x, y)
RECURSIVE prediction_raises(_, _, _, _, _)
prediction_raises(obstacles, i, x, y, time_step) ==
    IF i > Len(obstacles) THEN FALSE
    ELSE IF get_position_raises(obstacles[i]) THEN TRUE
    ELSE IF get_position_at_time(obstacles[i], time_step) = <<x, y>> THEN FALSE
    ELSE prediction_raises(obstacles, i + 1, x, y, time_step)

is_valid_raises(g, x, y, time_step) ==
    /\ 0 <= x /\ x < g.width /\ 0 <= y /\ y < g.height
    /\ g.grid[y][x] # OBSTACLE
    /\ prediction_raises(g.moving_obstacles, 1, x, y, time_step)

---------------------------------------------------------------------------
(* environment.py: Grid.save_to_file and Grid.load_from_file.  A file is   *)
(* the sequence of its lines, a line the sequence of the integers written  *)
(* on it, separated by blanks.                                             *)

\* save_to_file: the nested loops 'for y ... for x ...' that collect the
\* static obstacles, from cell number k on (row by row)
RECURSIVE obstacle_positions(_, _)
obstacle_positions(g, k) ==
    IF k >= g.width * g.height THEN <<>>
    ELSE LET x == k % g.width
             y == k \div g.width
         IN  IF g.grid[y][x] = OBSTACLE
             THEN <<<<x, y>>>> \o obstacle_positions(g, k + 1)
             ELSE obstacle_positions(g, k + 1)

\* save_to_file: 'for x, y in obstacle.path: f.write(f"{x} {y} ")', from
\* waypoint i on
RECURSIVE path_text(_, _)
path_text(path, i) ==
    IF i > Len(path) THEN <<>>
    ELSE <<path[i][1], path[i][2]>> \o path_text(path, i + 1)

\* save_to_file: the line of one moving obstacle
obstacle_line(obstacle) ==
    <<obstacle.x, obstacle.y, Len(obstacle.path)>>
        \o path_text(obstacle.path, 1) \o <<obstacle.speed>>

\* Grid.save_to_file: the lines written for the Grid object g
save_to_file(g) ==
    <<<<g.width, g.height>>>>
    \o <<<<Len(obstacle_positions(g, 0))>>>>
    \o obstacle_positions(g, 0)
    \o [r \in 1 .. g.height |-> [c \in 1 .. g.width |-> g.terrain[r - 1][c - 1]]]
    \o <<<<Len(g.moving_obstacles)>>>>
    \o [i \in 1 .. Len(g.moving_obstacles) |-> obstacle_line(g.moving_obstacles[i])]

\* load_from_file: 'for i in range(path_length): path.append(...)' on the
\* parts of an obstacle's line
parse_path(parts) ==
    [i \in 1 .. parts[3] |-> <<parts[2 + 2 * i], parts[3 + 2 * i]>>]

\* load_from_file: the obstacle read from the parts of one line, constructed
\* by MovingObstacle(x, y, path, speed)
parse_obstacle(parts) ==
    MovingObstacle(parts[1], parts[2], parse_path(parts), parts[4 + 2 * parts[3]])

\* load_from_file: the loop over the lines of the static obstacles, from line
\* i of n on
RECURSIVE load_static_obstacles(_, _, _, _)
load_static_obstacles(g, lines, i, n) ==
    IF i > n THEN g
    ELSE LET xy == lines[2 + i]
         IN  load_static_obstacles([g EXCEPT !.grid = add_obstacle(@, xy[1], xy[2])],
                            lines, i + 1, n)

\* Grid.load_from_file: the Grid object after reading the lines
load_from_file(lines) ==
    LET width == lines[1][1]
        height == lines[1][2]
        num_obstacles == lines[2][1]
        with_obstacles == load_static_obstacles(Grid(width, height), lines, 1, num_obstacles)
        line_idx == 2 + num_obstacles
        with_terrain ==
            [with_obstacles EXCEPT !.terrain =
                [y \in 0 .. (height - 1) |->
                    [x \in 0 .. (width - 1) |-> lines[line_idx + y + 1][x + 1]]]]
        num_moving_obstacles == lines[line_idx + height + 1][1]
    IN  [with_terrain EXCEPT !.moving_obstacles =
            [i \in 1 .. num_moving_obstacles |->
                parse_obstacle(lines[line_idx + height + 1 + i])]]

\* the Grid object of the session with all its attributes
self_grid ==
    [width |-> Width, height |-> Height, grid |-> grid, terrain |-> terrain,
     moving_obstacles |-> moving_obstacles]

---------------------------------------------------------------------------

(* planners.py: Node *)

\* Node.__init__; parent is <<>> (None) or <<node>>
Node(x, y, cost, time_step, parent) ==
    [x |-> x, y |-> y, cost |-> cost, time_step |-> time_step, parent |-> parent]

\* Node.__lt__
\* an ordering of the nodes by time step
earlier(a, b) == a.time_step < b.time_step

node_lt(a, b) == a.cost < b.cost

\* Node.__eq__
node_eq(a, b) == a.x = b.x /\ a.y = b.y /\ a.time_step = b.time_step

\* the while loop of Node.get_path: the positions from this node up to the root
RECURSIVE path_to_root(_)
path_to_root(node) ==
    <<<<node.x, node.y>>>> \o
        (IF node.parent = <<>> THEN <<>> ELSE path_to_root(node.parent[1]))

reversed(s) == [i \in 1 .. Len(s) |-> s[Len(s) + 1 - i]]

\* Node.get_path
\* the walk up the parent links, left in that order
get_path_unreversed(node) == path_to_root(node)

get_path(node) == reversed(path_to_root(node))

\* PathPlanner.manhattan_distance
abs(n) == IF n < 0 THEN -n ELSE n
manhattan_distance(x1, y1, x2, y2) == abs(x1 - x2) + abs(y1 - y2)

---------------------------------------------------------------------------
(* heapq, as UCSPlanner.plan and AStarPlanner.plan use it.  UCS pushes Node *)
(* objects (kind "node"), A* pushes (priority, node) tuples (kind "tuple"). *)
(* Positions are 0-based as in the library; heap[pos + 1] is Python's       *)
(* heap[pos].                                                               *)

\* (priority, node) < (priority, node): the first differing component decides
tuple_lt(a, b) ==
    IF a[1] # b[1] THEN a[1] < b[1]
    ELSE IF ~node_eq(a[2], b[2]) THEN node_lt(a[2], b[2])
    ELSE FALSE

item_lt(kind, a, b) == IF kind = "node" THEN node_lt(a, b) ELSE tuple_lt(a, b)

RECURSIVE siftdown_loop(_, _, _, _, _)
siftdown_loop(kind, heap, startpos, pos, newitem) ==
    IF pos > startpos
    THEN LET parentpos == (pos - 1) \div 2
             parent == heap[parentpos + 1]
         IN  IF item_lt(kind, newitem, parent)
             THEN siftdown_loop(kind, [heap EXCEPT ![pos + 1] = parent],
                                startpos, parentpos, newitem)
             ELSE [heap EXCEPT ![pos + 1] = newitem]
    ELSE [heap EXCEPT ![pos + 1] = newitem]

\* heapq._siftdown
siftdown(kind, heap, startpos, pos) ==
    siftdown_loop(kind, heap, startpos, pos, heap[pos + 1])

RECURSIVE siftup_loop(_, _, _, _, _)
siftup_loop(kind, heap, startpos, pos, newitem) ==
    LET endpos == Len(heap)
        leftpos == 2 * pos + 1
        rightpos == leftpos + 1
        childpos == IF rightpos < endpos
                       /\ ~item_lt(kind, heap[leftpos + 1], heap[rightpos + 1])
                    THEN rightpos ELSE leftpos
    IN  IF leftpos < endpos
        THEN siftup_loop(kind, [heap EXCEPT ![pos + 1] = heap[childpos + 1]],
                         startpos, childpos, newitem)
        ELSE siftdown(kind, [heap EXCEPT ![pos + 1] = newitem], startpos, pos)

\* heapq._siftup
siftup(kind, heap, pos) == siftup_loop(kind, heap, pos, pos, heap[pos + 1])

\* heapq.heappush
heappush(kind, heap, item) == siftdown(kind, Append(heap, item), 0, Len(heap))

\* heapq.heappop: the item returned, and the heap left
heappop_item(heap) == heap[1]
heappop_heap(kind, heap) ==
    LET lastelt == heap[Len(heap)]
        rest == SubSeq(heap, 1, Len(heap) - 1)
    IN  IF rest # <<>> THEN siftup(kind, [rest EXCEPT ![1] = lastelt], 0)
        ELSE rest

---------------------------------------------------------------------------
(* The plan() calls of a session *)

Algorithms == {"bfs", "ucs", "astar", "sa"}

\* a plan() call that was not made yet, one that returned (node is <<>> for
\* None, <<n>> for the Node n), and one the model stopped following because
\* it dequeued a non-goal node MaxDepth moves after the start
Pending == [status |-> "pending", node |-> <<>>, calls |-> 0]
Returned(node, calls) == [status |-> "returned", node |-> node, calls |-> calls]
Beyond(calls) == [status |-> "beyond", node |-> <<>>, calls |-> calls]

is_goal(node) == node.x = query.goal_x /\ node.y = query.goal_y

depth(node) == node.time_step - query.start_time

\* start_node = Node(start_x, start_y, 0, start_time)
\* a start node charged for the cell the agent already stands on
charged_start_node ==
    Node(query.start_x, query.start_y, get_cost(query.start_x, query.start_y),
         query.start_time, <<>>)

start_node == Node(query.start_x, query.start_y, 0, query.start_time, <<>>)
start_key == <<query.start_x, query.start_y, query.start_time>>

---------------------------------------------------------------------------
(* planners.py: BFSPlanner.plan *)

\* the loop of BFS without the marking of what it enqueues
RECURSIVE expand_unmarked(_, _, _)
expand_unmarked(current_node, i, st) ==
    IF i > Len(get_all) THEN st
    ELSE LET new_x == current_node.x + get_all[i][1]
             new_y == current_node.y + get_all[i][2]
             new_time_step == current_node.time_step + 1
             new_node == Node(new_x, new_y, current_node.cost + 1,
                              new_time_step, <<current_node>>)
             counted == [st EXCEPT !.calls = @ + 1]
         IN  IF is_valid(new_x, new_y, new_time_step)
                /\ <<new_x, new_y, new_time_step>> \notin st.visited
             THEN expand_unmarked(current_node, i + 1,
                      [counted EXCEPT !.queue = Append(@, new_node)])
             ELSE expand_unmarked(current_node, i + 1, counted)

\* the loop of BFS with each new node put at the front of the queue
RECURSIVE expand_to_front(_, _, _)
expand_to_front(current_node, i, st) ==
    IF i > Len(get_all) THEN st
    ELSE LET new_x == current_node.x + get_all[i][1]
             new_y == current_node.y + get_all[i][2]
             new_time_step == current_node.time_step + 1
             new_node == Node(new_x, new_y, current_node.cost + 1,
                              new_time_step, <<current_node>>)
             counted == [st EXCEPT !.calls = @ + 1]
         IN  IF is_valid(new_x, new_y, new_time_step)
                /\ <<new_x, new_y, new_time_step>> \notin st.visited
             THEN expand_to_front(current_node, i + 1,
                      [counted EXCEPT
                          !.visited = @ \cup {<<new_x, new_y, new_time_step>>},
                          !.queue = <<new_node>> \o @])
             ELSE expand_to_front(current_node, i + 1, counted)

\* the for loop over Direction.get_all(), from direction i on;
\* st = [visited, queue, calls] is the state of the loop
RECURSIVE bfs_expand(_, _, _)
bfs_expand(current_node, i, st) ==
    IF i > Len(get_all) THEN st
    ELSE LET new_x == current_node.x + get_all[i][1]
             new_y == current_node.y + get_all[i][2]
             new_time_step == current_node.time_step + 1
             new_node == Node(new_x, new_y, current_node.cost + 1,
                              new_time_step, <<current_node>>)
             counted == [st EXCEPT !.calls = @ + 1]
         IN  IF is_valid(new_x, new_y, new_time_step)
                /\ <<new_x, new_y, new_time_step>> \notin st.visited
             THEN bfs_expand(current_node, i + 1,
                      [counted EXCEPT
                          !.visited = @ \cup {<<new_x, new_y, new_time_step>>},
                          !.queue = Append(@, new_node)])
             ELSE bfs_expand(current_node, i + 1, counted)

---------------------------------------------------------------------------
(* planners.py: UCSPlanner.plan *)

RECURSIVE ucs_expand(_, _, _)
ucs_expand(current_node, i, st) ==
    IF i > Len(get_all) THEN st
    ELSE LET new_x == current_node.x + get_all[i][1]
             new_y == current_node.y + get_all[i][2]
             new_time_step == current_node.time_step + 1
             cell_cost == get_cost(new_x, new_y)
             new_cost == current_node.cost + cell_cost
             new_node == Node(new_x, new_y, new_cost, new_time_step,
                              <<current_node>>)
             counted == [st EXCEPT !.calls = @ + 1]
         IN  IF is_valid(new_x, new_y, new_time_step)
                /\ <<new_x, new_y, new_time_step>> \notin st.visited
             THEN ucs_expand(current_node, i + 1,
                      [counted EXCEPT
                          !.visited = @ \cup {<<new_x, new_y, new_time_step>>},
                          !.queue = heappush("node", @, new_node)])
             ELSE ucs_expand(current_node, i + 1, counted)

---------------------------------------------------------------------------
(* planners.py: AStarPlanner.plan *)

\* self.heuristic: AStarPlanner.__init__ with heuristic = None
heuristic(x1, y1, x2, y2) == manhattan_distance(x1, y1, x2, y2)

RECURSIVE astar_expand(_, _, _)
astar_expand(current_node, i, st) ==
    IF i > Len(get_all) THEN st
    ELSE LET new_x == current_node.x + get_all[i][1]
             new_y == current_node.y + get_all[i][2]
             new_time_step == current_node.time_step + 1
             cell_cost == get_cost(new_x, new_y)
             new_cost == current_node.cost + cell_cost
             priority == new_cost + heuristic(new_x, new_y, query.goal_x, query.goal_y)
             new_node == Node(new_x, new_y, new_cost, new_time_step,
                              <<current_node>>)
             counted == [st EXCEPT !.calls = @ + 1]
         IN  IF is_valid(new_x, new_y, new_time_step)
                /\ <<new_x, new_y, new_time_step>> \notin st.visited
             THEN astar_expand(current_node, i + 1,
                      [counted EXCEPT
                          !.visited = @ \cup {<<new_x, new_y, new_time_step>>},
                          !.queue = heappush("tuple", @, <<priority, new_node>>)])
             ELSE astar_expand(current_node, i + 1, counted)

---------------------------------------------------------------------------
(* planners.py: SimulatedAnnealingPlanner.plan *)

\* the outcomes of random.shuffle(directions): the orders of the four directions
Shuffles ==
    {p \in [1 .. 4 -> 1 .. 4] : \A i, j \in 1 .. 4 : i # j => p[i] # p[j]}

\* the loop over the shuffled directions without the test that the new cell is
\* one step from the next waypoint
RECURSIVE any_free_neighbour(_, _, _, _, _, _)
any_free_neighbour(directions, i, prev, next, time_step, calls) ==
    IF i > Len(directions)
    THEN [found_alternative |-> FALSE, alt |-> prev, calls |-> calls]
    ELSE LET alt_x == prev[1] + get_all[directions[i]][1]
             alt_y == prev[2] + get_all[directions[i]][2]
         IN  IF <<alt_x, alt_y>> # prev /\ <<alt_x, alt_y>> # next
             THEN IF is_valid(alt_x, alt_y, time_step)
                  THEN [found_alternative |-> TRUE, alt |-> <<alt_x, alt_y>>,
                        calls |-> calls + 1]
                  ELSE any_free_neighbour(directions, i + 1, prev, next,
                                          time_step, calls + 1)
             ELSE any_free_neighbour(directions, i + 1, prev, next, time_step, calls)

\* the for loop over the shuffled directions, from position i on: the first
\* direction whose cell qualifies as new_path[modify_index]
RECURSIVE find_alternative(_, _, _, _, _, _)
find_alternative(directions, i, prev, next, time_step, calls) ==
    IF i > Len(directions)
    THEN [found_alternative |-> FALSE, alt |-> prev, calls |-> calls]
    ELSE LET alt_x == prev[1] + get_all[directions[i]][1]
             alt_y == prev[2] + get_all[directions[i]][2]
         IN  IF <<alt_x, alt_y>> # prev /\ <<alt_x, alt_y>> # next
             THEN IF is_valid(alt_x, alt_y, time_step)
                  THEN IF abs(alt_x - next[1]) + abs(alt_y - next[2]) = 1
                       THEN [found_alternative |-> TRUE, alt |-> <<alt_x, alt_y>>,
                             calls |-> calls + 1]
                       ELSE find_alternative(directions, i + 1, prev, next,
                                             time_step, calls + 1)
                  ELSE find_alternative(directions, i + 1, prev, next,
                                        time_step, calls + 1)
             ELSE find_alternative(directions, i + 1, prev, next, time_step, calls)

\* the for loop 'for j in range(1, len(new_path))' from j on (j is the Python
\* index): new_cost, valid_path and the is_valid calls made
RECURSIVE walk_path(_, _, _, _)
walk_path(new_path, j, new_cost, calls) ==
    IF j >= Len(new_path)
    THEN [valid_path |-> TRUE, new_cost |-> new_cost, calls |-> calls]
    ELSE LET curr == new_path[j + 1]
             time_step == j + query.start_time
         IN  IF ~is_valid(curr[1], curr[2], time_step)
             THEN [valid_path |-> FALSE, new_cost |-> new_cost, calls |-> calls + 1]
             ELSE walk_path(new_path, j + 1,
                            new_cost + get_cost(curr[1], curr[2]), calls + 1)

\* 'if new_cost < current_cost: accept, else: ... if random.random() <
\* acceptance_prob: accept', draw being the outcome of the comparison where
\* it is open: acceptance_prob = exp((current_cost - new_cost) / temperature)
\* is exp(0) = 1.0 for equal costs, which every random() in [0, 1) is below
\* an acceptance of every candidate that can be walked
accepts_any(new_cost, cur_cost, draw) == TRUE

accepts(new_cost, cur_cost, draw) ==
    IF new_cost < cur_cost THEN TRUE
    ELSE IF new_cost = cur_cost THEN TRUE
    ELSE draw

\* 'Convert path back to node': the node chain of current_path[0 .. i]
RECURSIVE node_chain(_, _)
node_chain(path, i) ==
    IF i = 0
    THEN Node(path[1][1], path[1][2], 0, query.start_time, <<>>)
    ELSE LET parent == node_chain(path, i - 1)
         IN  Node(path[i + 1][1], path[i + 1][2],
                  parent.cost + get_cost(path[i + 1][1], path[i + 1][2]),
                  i + query.start_time, <<parent>>)

---------------------------------------------------------------------------
(* The worlds and queries of the sessions *)

\* Grid.__init__ followed by set_terrain(x, y, c) for every cell
UniformTerrain(c) == [y \in Ys |-> [x \in Xs |-> c]]

\* Grid.__init__ followed by set_terrain for four cells: water at (0,0) and
\* (1,1), mud at (2,0) and (2,1), road elsewhere
MixedTerrain ==
    set_terrain(set_terrain(set_terrain(set_terrain(InitialTerrain,
        0, 0, WATER), 1, 1, WATER), 2, 0, MUD), 2, 1, MUD)

\* Grid.__init__ followed by add_obstacle(x, y) for the cells of S
WithObstacles(S) ==
    [y \in Ys |-> [x \in Xs |-> IF <<x, y>> \in S THEN OBSTACLE ELSE EMPTY]]

\* one obstacle in the middle (tests/test_planners.py setUp)
Centre == {<<Width \div 2, Height \div 2>>}
\* a full wall along y = 1 (examples.py error_handling_example)
Wall == {<<x, 1>> : x \in Xs}
\* the corner (0,0) walled in
Corner == {<<1, 0>>, <<0, 1>>}

\* one moving obstacle cycling (0,2) -> (2,2) -> (0,0) with speed 1
Patrol == MovingObstacle(0, 2, <<<<0, 2>>, <<2, 2>>, <<0, 0>>>>, 1)

World(t, S, m) == [terrain |-> t, grid |-> WithObstacles(S), moving_obstacles |-> m]

\* uniform terrain of every cost, open or with the middle obstacle; road
\* with the wall or the walled-in corner; the patrol on mixed terrain and on
\* road around the middle obstacle
Worlds ==
    {World(UniformTerrain(c), S, <<>>) : c \in TerrainType, S \in {{}, Centre}}
    \cup {World(InitialTerrain, S, <<>>) : S \in {Wall, Corner}}
    \cup {World(MixedTerrain, {}, <<Patrol>>),
          World(InitialTerrain, Centre, <<Patrol>>)}

\* the outcome of a call of the session: the "status" of the dictionary a
\* DeliveryAPI method returns, "returned" for a call that returns a value,
\* or the name of the exception it raises
Response(call, args, status) == [call |-> call, args |-> args, status |-> status]
NoCall == Response("none", <<>>, "none")

\* the frame of the agent's call in progress: who called ("none" when no
\* call was made yet, "direct" for plan_path_to and execute_step called one
\* by one, "deliver_packages"), the algorithm and the goal of plan_path_to,
\* all_points and the position in it of deliver_packages, the number of
\* plan_path_to calls made, and what deliver_packages returned
Mission(caller, algorithm, goal, all_points, index, legs, returned) ==
    [caller |-> caller, algorithm |-> algorithm, goal |-> goal,
     all_points |-> all_points, index |-> index, legs |-> legs,
     returned |-> returned]
NoMission == Mission("none", "none", <<>>, <<>>, 0, 0, "none")

\* what no plan() call writes
world == <<grid, terrain, moving_obstacles, query, api_grid, response,
           sa_planner, agent, mission>>
locals == <<queue, priority_queue, visited, current_path, current_cost,
            iteration, coolings>>

Init ==
    /\ \E w \in Worlds :
          /\ terrain = w.terrain
          /\ grid = w.grid
          /\ moving_obstacles = w.moving_obstacles
    \* without moving obstacles is_valid does not read the time step
    /\ query \in [start_x : Xs, start_y : Ys, goal_x : Xs, goal_y : Ys,
                  start_time : IF moving_obstacles = <<>> THEN {0}
                               ELSE 0 .. MaxStartTime]
    /\ pc = "bfs_call"
    /\ queue = <<>>
    /\ priority_queue = <<>>
    /\ visited = {}
    /\ current_path = <<>>
    /\ current_cost = 0
    /\ iteration = 0
    /\ coolings = 0
    /\ is_valid_calls = 0
    /\ result = [a \in Algorithms |-> Pending]
    /\ api_grid = <<>>
    /\ response = NoCall
    /\ sa_planner = <<>>
    /\ agent = <<>>
    /\ mission = NoMission

---------------------------------------------------------------------------
(* BFSPlanner.plan, one action per iteration of 'while queue' *)

\* planners.py:134-139
BFSCall ==
    /\ pc = "bfs_call"
    /\ queue' = <<start_node>>
    /\ visited' = {start_key}
    /\ is_valid_calls' = 0
    /\ pc' = "bfs"
    /\ UNCHANGED <<world, priority_queue, current_path, current_cost,
                   iteration, coolings, result>>

\* the call returns (or is followed no further): its locals are dropped
\* a return that first lets the moving obstacles take a step
FinishAfterTick(algorithm, outcome, next_pc) ==
    /\ result' = [result EXCEPT ![algorithm] = outcome]
    /\ pc' = next_pc
    /\ queue' = <<>>
    /\ priority_queue' = <<>>
    /\ visited' = {}
    /\ moving_obstacles' =
           update_moving_obstacles(moving_obstacles, 1).moving_obstacles
    /\ UNCHANGED <<grid, terrain, query, api_grid, response, sa_planner,
                   agent, mission, current_path, current_cost, iteration,
                   coolings, is_valid_calls>>

Finish(algorithm, outcome, next_pc) ==
    /\ result' = [result EXCEPT ![algorithm] = outcome]
    /\ pc' = next_pc
    /\ queue' = <<>>
    /\ priority_queue' = <<>>
    /\ visited' = {}
    /\ UNCHANGED <<world, current_path, current_cost, iteration, coolings,
                   is_valid_calls>>

\* 'while queue' ends: return None
BFSExhausted ==
    /\ pc = "bfs"
    /\ queue = <<>>
    /\ Finish("bfs", Returned(<<>>, is_valid_calls), "ucs_call")

\* the dequeued node is at the goal: return current_node
BFSGoal ==
    /\ pc = "bfs"
    /\ queue # <<>>
    /\ is_goal(Head(queue))
    /\ Finish("bfs", Returned(<<Head(queue)>>, is_valid_calls), "ucs_call")

BFSExpand ==
    /\ pc = "bfs"
    /\ queue # <<>>
    /\ ~is_goal(Head(queue))
    /\ depth(Head(queue)) < MaxDepth
    /\ \E st \in {bfs_expand(Head(queue), 1,
                     [visited |-> visited, queue |-> Tail(queue),
                      calls |-> is_valid_calls])} :
           /\ queue' = st.queue
           /\ visited' = st.visited
           /\ is_valid_calls' = st.calls
    /\ UNCHANGED <<world, pc, priority_queue, current_path, current_cost,
                   iteration, coolings, result>>

BFSBeyond ==
    /\ pc = "bfs"
    /\ queue # <<>>
    /\ ~is_goal(Head(queue))
    /\ depth(Head(queue)) >= MaxDepth
    /\ Finish("bfs", Beyond(is_valid_calls), "ucs_call")

---------------------------------------------------------------------------
(* UCSPlanner.plan, one action per iteration of 'while priority_queue' *)

\* planners.py:178-183
UCSCall ==
    /\ pc = "ucs_call"
    /\ priority_queue' = heappush("node", <<>>, start_node)
    /\ visited' = {start_key}
    /\ is_valid_calls' = 0
    /\ pc' = "ucs"
    /\ UNCHANGED <<world, queue, current_path, current_cost, iteration,
                   coolings, result>>

UCSExhausted ==
    /\ pc = "ucs"
    /\ priority_queue = <<>>
    /\ Finish("ucs", Returned(<<>>, is_valid_calls), "sa_call")

UCSGoal ==
    /\ pc = "ucs"
    /\ priority_queue # <<>>
    /\ is_goal(heappop_item(priority_queue))
    /\ Finish("ucs", Returned(<<heappop_item(priority_queue)>>, is_valid_calls),
              "sa_call")

UCSExpand ==
    /\ pc = "ucs"
    /\ priority_queue # <<>>
    /\ ~is_goal(heappop_item(priority_queue))
    /\ depth(heappop_item(priority_queue)) < MaxDepth
    /\ \E st \in {ucs_expand(heappop_item(priority_queue), 1,
                     [visited |-> visited,
                      queue |-> heappop_heap("node", priority_queue),
                      calls |-> is_valid_calls])} :
           /\ priority_queue' = st.queue
           /\ visited' = st.visited
           /\ is_valid_calls' = st.calls
    /\ UNCHANGED <<world, pc, queue, current_path, current_cost, iteration,
                   coolings, result>>

UCSBeyond ==
    /\ pc = "ucs"
    /\ priority_queue # <<>>
    /\ ~is_goal(heappop_item(priority_queue))
    /\ depth(heappop_item(priority_queue)) >= MaxDepth
    /\ Finish("ucs", Beyond(is_valid_calls), "sa_call")

---------------------------------------------------------------------------
(* SimulatedAnnealingPlanner.plan and the AStarPlanner.plan call it makes *)

\* planners.py:302-303 and 236-242: astar = AStarPlanner(self.grid);
\* astar.plan(...) sets up its heap and visited set
SACall ==
    /\ pc = "sa_call"
    /\ LET start_priority ==
               start_node.cost + heuristic(query.start_x, query.start_y,
                                           query.goal_x, query.goal_y)
       IN  priority_queue' = heappush("tuple", <<>>, <<start_priority, start_node>>)
    /\ visited' = {start_key}
    /\ is_valid_calls' = 0
    /\ pc' = "astar"
    /\ UNCHANGED <<world, queue, current_path, current_cost, iteration,
                   coolings, result>>

AStarExhausted ==
    /\ pc = "astar"
    /\ priority_queue = <<>>
    /\ Finish("astar", Returned(<<>>, is_valid_calls), "sa_seed")

AStarGoal ==
    /\ pc = "astar"
    /\ priority_queue # <<>>
    /\ is_goal(heappop_item(priority_queue)[2])
    /\ Finish("astar", Returned(<<heappop_item(priority_queue)[2]>>, is_valid_calls),
              "sa_seed")

AStarExpand ==
    /\ pc = "astar"
    /\ priority_queue # <<>>
    /\ ~is_goal(heappop_item(priority_queue)[2])
    /\ depth(heappop_item(priority_queue)[2]) < MaxDepth
    /\ \E st \in {astar_expand(heappop_item(priority_queue)[2], 1,
                     [visited |-> visited,
                      queue |-> heappop_heap("tuple", priority_queue),
                      calls |-> is_valid_calls])} :
           /\ priority_queue' = st.queue
           /\ visited' = st.visited
           /\ is_valid_calls' = st.calls
    /\ UNCHANGED <<world, pc, queue, current_path, current_cost, iteration,
                   coolings, result>>

\* the A* call is followed no further, and so is the refiner waiting for it
AStarBeyond ==
    /\ pc = "astar"
    /\ priority_queue # <<>>
    /\ ~is_goal(heappop_item(priority_queue)[2])
    /\ depth(heappop_item(priority_queue)[2]) >= MaxDepth
    /\ result' = [result EXCEPT !["astar"] = Beyond(is_valid_calls),
                                !["sa"] = Beyond(is_valid_calls)]
    /\ pc' = "done"
    /\ queue' = <<>>
    /\ priority_queue' = <<>>
    /\ visited' = {}
    /\ UNCHANGED <<world, current_path, current_cost, iteration, coolings,
                   is_valid_calls>>

\* planners.py:305-311: 'if not current_node: return None', else the seed
SASeed ==
    /\ pc = "sa_seed"
    /\ IF result["astar"].node = <<>>
       THEN /\ result' = [result EXCEPT !["sa"] = Returned(<<>>, is_valid_calls)]
            /\ pc' = "done"
            /\ UNCHANGED <<current_path, current_cost>>
       ELSE /\ current_path' = get_path(result["astar"].node[1])
            /\ current_cost' = result["astar"].node[1].cost
            /\ pc' = "sa"
            /\ UNCHANGED result
    /\ iteration' = 0
    /\ coolings' = 0
    /\ UNCHANGED <<world, queue, priority_queue, visited, is_valid_calls>>

\* random.randint (modify_index) and random.shuffle (directions) in one
\* iteration of 'for i in range(self.max_iterations)', and what the loop over
\* the directions then finds: the set of <<modify_index, found>>
sa_alternatives ==
    {<<modify_index,
       find_alternative(directions, 1, current_path[modify_index],
                        current_path[modify_index + 2],
                        modify_index + query.start_time, is_valid_calls)>> :
        modify_index \in 1 .. (Len(current_path) - 2), directions \in Shuffles}

\* 'if found_alternative:' the re-walk of new_path; the set of
\* <<found, new_path, walked>>
\* a re-walk of a path in which the waypoint before new_path[modify_index]
\* was replaced, the start included
sa_candidates_any_waypoint ==
    {<<e[2], [current_path EXCEPT ![e[1]] = e[2].alt],
       IF e[2].found_alternative
       THEN walk_path([current_path EXCEPT ![e[1]] = e[2].alt], 1, 0,
                      e[2].calls)
       ELSE [valid_path |-> FALSE, new_cost |-> 0, calls |-> e[2].calls]>> :
        e \in sa_alternatives}

sa_candidates ==
    {<<e[2], [current_path EXCEPT ![e[1] + 1] = e[2].alt],
       IF e[2].found_alternative
       THEN walk_path([current_path EXCEPT ![e[1] + 1] = e[2].alt], 1, 0,
                      e[2].calls)
       ELSE [valid_path |-> FALSE, new_cost |-> 0, calls |-> e[2].calls]>> :
        e \in sa_alternatives}

\* the iteration's outcome for the candidate new_path and the acceptance test
\* coming out as draw: the new current_path and current_cost, whether the
\* temperature was cooled (it is only where an alternative was found:
\* planners.py:344-373), and the count of is_valid calls
\* an iteration that cools only when it takes the candidate
sa_outcome_cooling_on_change(found, new_path, walked, draw) ==
    IF found.found_alternative /\ walked.valid_path
          /\ accepts(walked.new_cost, current_cost, draw)
    THEN [current_path |-> new_path, current_cost |-> walked.new_cost,
          cooled |-> TRUE, calls |-> walked.calls]
    ELSE [current_path |-> current_path, current_cost |-> current_cost,
          cooled |-> FALSE, calls |-> walked.calls]

sa_outcome(found, new_path, walked, draw) ==
    IF found.found_alternative /\ walked.valid_path
       /\ accepts(walked.new_cost, current_cost, draw)
    THEN [current_path |-> new_path, current_cost |-> walked.new_cost,
          cooled |-> TRUE, calls |-> walked.calls]
    ELSE [current_path |-> current_path, current_cost |-> current_cost,
          cooled |-> found.found_alternative, calls |-> walked.calls]

\* one iteration that does not break
SAIterate ==
    /\ pc = "sa"
    /\ iteration < MaxIterations
    /\ Len(current_path) > 2
    /\ \E outcome \in {sa_outcome(c[1], c[2], c[3], draw) :
                           c \in sa_candidates, draw \in BOOLEAN} :
          /\ current_path' = outcome.current_path
          /\ current_cost' = outcome.current_cost
          /\ coolings' = IF outcome.cooled THEN coolings + 1 ELSE coolings
          /\ is_valid_calls' = outcome.calls
    /\ iteration' = iteration + 1
    /\ UNCHANGED <<world, pc, queue, priority_queue, visited, result>>

\* the loop ends ('break' for a path of at most 2 waypoints, or
\* max_iterations iterations made); planners.py:375-390
\* an end of the loop that hands back a path only if it has an interior
\* waypoint
SAFinishInteriorOnly ==
    /\ pc = "sa"
    /\ (iteration >= MaxIterations \/ Len(current_path) <= 2)
    /\ result' = [result EXCEPT !["sa"] =
           IF Len(current_path) > 2
           THEN Returned(<<node_chain(current_path, Len(current_path) - 1)>>,
                         is_valid_calls)
           ELSE Returned(<<>>, is_valid_calls)]
    /\ pc' = "done"
    /\ UNCHANGED <<world, locals, is_valid_calls>>

SAFinish ==
    /\ pc = "sa"
    /\ (iteration >= MaxIterations \/ Len(current_path) <= 2)
    /\ result' = [result EXCEPT !["sa"] =
           IF current_path # <<>>
           THEN Returned(<<node_chain(current_path, Len(current_path) - 1)>>,
                         is_valid_calls)
           ELSE Returned(<<>>, is_valid_calls)]
    /\ pc' = "done"
    /\ UNCHANGED <<world, locals, is_valid_calls>>

---------------------------------------------------------------------------

Next ==
    \/ BFSCall \/ BFSExhausted \/ BFSGoal \/ BFSExpand \/ BFSBeyond
    \/ UCSCall \/ UCSExhausted \/ UCSGoal \/ UCSExpand \/ UCSBeyond
    \/ SACall \/ AStarExhausted \/ AStarGoal \/ AStarExpand \/ AStarBeyond
    \/ SASeed \/ SAIterate \/ SAFinish

Spec == Init /\ [][Next]_vars

\* a step of the session is possible exactly while it has not ended
Running == pc # "done"
NextEnabled == (ENABLED <<Next>>_vars) <=> Running

\* every plan() call keeps running: it is single-threaded and synchronous.
\* This is WF_vars(Next) with ENABLED <<Next>>_vars written as Running, which
\* it equals in every reachable state (NextEnabled is an invariant of Spec).
FairSpec == Spec /\ ([]<>~Running \/ []<><<Next>>_vars)

---------------------------------------------------------------------------
(* A session that builds a world: DeliveryAPI.create_grid and               *)
(* add_moving_obstacle, the ticks of Grid.update_moving_obstacles, queries  *)
(* of Grid.is_valid and the construction of a SimulatedAnnealingPlanner     *)

MaxPathLen == 2
MaxSpeed == 2
MaxObstacles == 1
\* the largest offset a prediction is asked for
MaxOffset == 4

\* the arguments the session passes
Sides == {-1, 0, Width, Height}
Stops == {<<0, 0>>, <<1, 0>>, <<1, 1>>}
Paths == UNION {[1 .. n -> Stops] : n \in 0 .. MaxPathLen}
Speeds == 0 .. MaxSpeed
\* cooling_rate in thousandths; 950 is the default 0.95
CoolingRates == {0, 950, 1000, 1500}

planning == <<grid, terrain, moving_obstacles, query, pc, locals,
              is_valid_calls, result>>

SetupInit ==
    /\ grid = InitialCells
    /\ terrain = InitialTerrain
    /\ moving_obstacles = <<>>
    /\ query = [start_x |-> 0, start_y |-> 0, goal_x |-> 0, goal_y |-> 0,
                start_time |-> 0]
    /\ pc = "session"
    /\ queue = <<>>
    /\ priority_queue = <<>>
    /\ visited = {}
    /\ current_path = <<>>
    /\ current_cost = 0
    /\ iteration = 0
    /\ coolings = 0
    /\ is_valid_calls = 0
    /\ result = [a \in Algorithms |-> Pending]
    /\ api_grid = <<>>
    /\ response = NoCall
    /\ sa_planner = <<>>
    /\ agent = <<>>
    /\ mission = NoMission

\* api.py:20-43 DeliveryAPI.create_grid
CreateGrid(width, height) ==
    /\ pc = "session"
    /\ IF Grid_raises(width, height)
       THEN /\ api_grid' = api_grid
            /\ response' = Response("create_grid", <<width, height>>, "error")
       ELSE /\ api_grid' = <<Grid(width, height)>>
            /\ response' = Response("create_grid", <<width, height>>, "success")
    /\ UNCHANGED <<planning, sa_planner, agent, mission>>

\* api.py:174-207 DeliveryAPI.add_moving_obstacle
AddMovingObstacle(x, y, path, speed) ==
    /\ pc = "session"
    /\ IF api_grid = <<>>
       THEN /\ api_grid' = api_grid
            /\ response' = Response("add_moving_obstacle", <<>>, "error")
       ELSE /\ Len(api_grid[1].moving_obstacles) < MaxObstacles
            /\ api_grid' = <<add_moving_obstacle(api_grid[1],
                                                 MovingObstacle(x, y, path, speed))>>
            /\ response' = Response("add_moving_obstacle", <<>>, "success")
    /\ UNCHANGED <<planning, sa_planner, agent, mission>>

\* environment.py:167-170 Grid.update_moving_obstacles on the grid of the
\* session
UpdateMovingObstacles ==
    /\ pc = "session"
    /\ api_grid # <<>>
    /\ LET updated == update_moving_obstacles(api_grid[1].moving_obstacles, 1)
       IN  /\ api_grid' = <<[api_grid[1] EXCEPT
                                !.moving_obstacles = updated.moving_obstacles]>>
           /\ response' = Response("update_moving_obstacles", <<>>,
                                   IF updated.raised THEN "ZeroDivisionError"
                                   ELSE "returned")
    /\ UNCHANGED <<planning, sa_planner, agent, mission>>

\* environment.py:96-122 Grid.is_valid on the grid of the session
IsValidQuery(x, y, time_step) ==
    /\ pc = "session"
    /\ api_grid # <<>>
    /\ response' = Response("is_valid", <<>>,
                            IF is_valid_raises(api_grid[1], x, y, time_step)
                            THEN "ZeroDivisionError" ELSE "returned")
    /\ UNCHANGED <<planning, api_grid, sa_planner, agent, mission>>

\* planners.py:270-284 SimulatedAnnealingPlanner.__init__ on the grid of the
\* session
NewSimulatedAnnealingPlanner(cooling_rate) ==
    /\ pc = "session"
    /\ api_grid # <<>>
    /\ sa_planner' = <<[max_iterations |-> MaxIterations,
                        cooling_rate |-> cooling_rate]>>
    /\ response' = Response("SimulatedAnnealingPlanner", <<>>, "returned")
    /\ UNCHANGED <<planning, api_grid, agent, mission>>

SetupNext ==
    \/ \E width \in Sides, height \in Sides : CreateGrid(width, height)
    \/ \E position \in Stops, path \in Paths, speed \in Speeds :
           AddMovingObstacle(position[1], position[2], path, speed)
    \/ UpdateMovingObstacles
    \/ \E c \in Cells, time_step \in 0 .. MaxOffset :
           IsValidQuery(c[1], c[2], time_step)
    \/ \E cooling_rate \in CoolingRates :
           NewSimulatedAnnealingPlanner(cooling_rate)

SetupSpec == SetupInit /\ [][SetupNext]_vars

---------------------------------------------------------------------------
(* agent.py: DeliveryAgent *)

\* DeliveryAgent.__init__
DeliveryAgent(start_x, start_y, fuel) ==
    [x |-> start_x, y |-> start_y, fuel |-> fuel, path |-> <<>>,
     current_step |-> 0, packages |-> <<>>, destinations |-> <<>>,
     delivered_packages |-> 0]

\* DeliveryAgent.add_package, DeliveryAgent.add_destination
add_package(a, x, y) == [a EXCEPT !.packages = Append(@, <<x, y>>)]
add_destination(a, x, y) == [a EXCEPT !.destinations = Append(@, <<x, y>>)]

\* 'e in s' and 's.remove(e)' of a Python list: the first occurrence goes
contains(s, e) == \E i \in 1 .. Len(s) : s[i] = e
first_index(s, e) == CHOOSE i \in 1 .. Len(s) : s[i] = e /\ \A j \in 1 .. (i - 1) : s[j] # e
remove(s, e) ==
    [i \in 1 .. (Len(s) - 1) |-> IF i < first_index(s, e) THEN s[i] ELSE s[i + 1]]

\* the planner plan_path_to constructs for an algorithm name
planner_of(algorithm) == IF algorithm = "a_star" THEN "astar" ELSE algorithm
AgentAlgorithms == {"bfs", "ucs", "a_star", "sa"}

\* DeliveryAgent.plan_path_to from the return of planner.plan on: result_node
\* is <<>> (None) or <<node>>
\* a route that keeps the waypoint the agent stands on
plan_whole_path(a, result_node) ==
    IF result_node # <<>>
    THEN [a EXCEPT !.path = get_path(result_node[1]), !.current_step = 0]
    ELSE a

plan_path_to(a, result_node) ==
    IF result_node # <<>>
    THEN [a EXCEPT !.path = Tail(get_path(result_node[1])), !.current_step = 0]
    ELSE a

\* the value DeliveryAgent.execute_step returns
execute_step_returns(a) == a.current_step < Len(a.path)

\* DeliveryAgent.execute_step, the agent's side
\* a step that burns one unit of fuel whatever the terrain
execute_step_unit_fuel(a) ==
    IF ~execute_step_returns(a) THEN a
    ELSE LET next == a.path[a.current_step + 1]
             packages == IF contains(a.packages, next)
                         THEN remove(a.packages, next) ELSE a.packages
         IN  [a EXCEPT !.x = next[1], !.y = next[2],
                       !.current_step = @ + 1,
                       !.fuel = @ - 1,
                       !.packages = packages,
                       !.delivered_packages =
                           IF contains(a.destinations, next)
                                  /\ Len(packages) < a.delivered_packages
                           THEN Len(packages) ELSE @]

\* a step that counts a delivery whenever it ends on a destination
execute_step_counting_deliveries(a) ==
    IF ~execute_step_returns(a) THEN a
    ELSE LET next == a.path[a.current_step + 1]
             packages == IF contains(a.packages, next)
                         THEN remove(a.packages, next) ELSE a.packages
         IN  [a EXCEPT !.x = next[1], !.y = next[2],
                       !.current_step = @ + 1,
                       !.fuel = @ - get_cost(next[1], next[2]),
                       !.packages = packages,
                       !.delivered_packages =
                           IF contains(a.destinations, next) THEN @ + 1 ELSE @]

execute_step(a) ==
    IF ~execute_step_returns(a) THEN a
    ELSE LET next == a.path[a.current_step + 1]
             packages == IF contains(a.packages, next)
                         THEN remove(a.packages, next) ELSE a.packages
         IN  [a EXCEPT !.x = next[1], !.y = next[2],
                       !.current_step = @ + 1,
                       !.fuel = @ - get_cost(next[1], next[2]),
                       !.packages = packages,
                       !.delivered_packages =
                           IF contains(a.destinations, next)
                                  /\ Len(packages) < a.delivered_packages
                           THEN Len(packages) ELSE @]

\* DeliveryAgent.has_reached_goal
has_reached_goal(a, goal) == a.x = goal[1] /\ a.y = goal[2]

\* 'if self.fuel <= 0' in the loop of deliver_packages
out_of_fuel(a) == a.fuel <= 0

---------------------------------------------------------------------------
(* A session of a DeliveryAgent: deliver_packages, or plan_path_to and      *)
(* execute_step called one by one; the plan() call of a plan_path_to is the *)
(* planner's part of Next                                                   *)

\* plan_path_to calls of a session of direct calls
MaxLegs == 2

\* the worlds of the agent: open water (examples.py fuel example), road
\* around the middle obstacle with the patrol, road with the walled-in corner
AgentWorlds ==
    {World(UniformTerrain(WATER), {}, <<>>),
     World(InitialTerrain, Centre, <<Patrol>>),
     World(InitialTerrain, Corner, <<>>)}
AgentStarts == {<<0, 0>>, <<2, 1>>}
Fuels == {10, 100}
\* the agents after DeliveryAgent(...), add_package and add_destination
Agents ==
    LET fresh == {DeliveryAgent(c[1], c[2], fuel) : c \in AgentStarts, fuel \in Fuels}
        packed == fresh \cup {add_package(a, c[1], c[2]) : a \in fresh, c \in Cells}
    IN  packed \cup {add_destination(a, 2, 2) : a \in packed}

AgentInit ==
    /\ \E w \in AgentWorlds :
          /\ terrain = w.terrain
          /\ grid = w.grid
          /\ moving_obstacles = w.moving_obstacles
    /\ agent \in {<<a>> : a \in Agents}
    /\ query = [start_x |-> 0, start_y |-> 0, goal_x |-> 0, goal_y |-> 0,
                start_time |-> 0]
    /\ pc = "agent"
    /\ queue = <<>>
    /\ priority_queue = <<>>
    /\ visited = {}
    /\ current_path = <<>>
    /\ current_cost = 0
    /\ iteration = 0
    /\ coolings = 0
    /\ is_valid_calls = 0
    /\ result = [a \in Algorithms |-> Pending]
    /\ api_grid = <<>>
    /\ response = NoCall
    /\ sa_planner = <<>>
    /\ mission = NoMission

\* agent.py:65-76: plan_path_to constructs the planner and calls
\* planner.plan(self.x, self.y, goal_x, goal_y, self.current_step)
call_planner(goal, algorithm) ==
    /\ query' = [start_x |-> agent[1].x, start_y |-> agent[1].y,
                 goal_x |-> goal[1], goal_y |-> goal[2],
                 start_time |-> agent[1].current_step]
    /\ pc' = IF algorithm \in {"a_star", "sa"} THEN "sa_call"
             ELSE IF algorithm = "ucs" THEN "ucs_call" ELSE "bfs_call"
    /\ result' = [a \in Algorithms |-> Pending]
    /\ queue' = <<>>
    /\ priority_queue' = <<>>
    /\ visited' = {}
    /\ current_path' = <<>>
    /\ current_cost' = 0
    /\ iteration' = 0
    /\ coolings' = 0
    /\ is_valid_calls' = 0

\* the points the session sends the agent to
points == agent[1].packages \o agent[1].destinations

\* agent.py:53-76 plan_path_to called by the session, once the route before
\* is used up
PlanPathToCall(goal, algorithm) ==
    /\ pc = "agent"
    /\ mission.caller \in {"none", "direct"}
    /\ mission.legs < MaxLegs
    /\ ~execute_step_returns(agent[1])
    /\ contains(points, goal)
    /\ mission' = Mission("direct", algorithm, goal, <<>>, 0,
                          mission.legs + 1, "none")
    /\ call_planner(goal, algorithm)
    /\ UNCHANGED <<grid, terrain, moving_obstacles, api_grid, response,
                   sa_planner, agent>>

\* the plan() call of the planner in progress
planned == result[planner_of(mission.algorithm)]
Planning ==
    /\ mission.caller \in {"direct", "deliver_packages"}
    /\ pc \notin {"agent", "deliver", "execute", "hung"}
    /\ planned.status = "pending"
    /\ Next

\* agent.py:78-85: planner.plan returned
PlanPathToReturn ==
    /\ pc \notin {"agent", "deliver", "execute", "hung"}
    /\ planned.status = "returned"
    /\ agent' = <<plan_path_to(agent[1], planned.node)>>
    /\ response' = Response("plan_path_to", <<>>,
                            IF planned.node # <<>> THEN "True" ELSE "False")
    /\ IF mission.caller = "direct"
       THEN pc' = "agent" /\ UNCHANGED mission
       ELSE IF planned.node # <<>>
       THEN pc' = "execute" /\ UNCHANGED mission
       ELSE /\ pc' = "agent"
            /\ mission' = [mission EXCEPT !.caller = "returned",
                                          !.returned = "False"]
    /\ UNCHANGED <<grid, terrain, moving_obstacles, query, locals,
                   is_valid_calls, result, api_grid, sa_planner>>

\* planner.plan is followed no further (Beyond): nor is the session
PlanPathToBeyond ==
    /\ pc \notin {"agent", "deliver", "execute", "hung"}
    /\ planned.status = "beyond"
    /\ pc' = "hung"
    /\ UNCHANGED <<grid, terrain, moving_obstacles, query, locals,
                   is_valid_calls, result, api_grid, response, sa_planner,
                   agent, mission>>

\* agent.py:87-117 execute_step called by the session, with the
\* grid.update_moving_obstacles() it makes when it moves
ExecuteStepCall ==
    /\ pc = "agent"
    /\ mission.caller \in {"none", "direct"}
    /\ agent' = <<execute_step(agent[1])>>
    /\ moving_obstacles' =
           IF execute_step_returns(agent[1])
           THEN update_moving_obstacles(moving_obstacles, 1).moving_obstacles
           ELSE moving_obstacles
    /\ response' = Response("execute_step", <<>>,
                            IF execute_step_returns(agent[1]) THEN "True"
                            ELSE "False")
    /\ mission' = [mission EXCEPT !.caller = "direct"]
    /\ UNCHANGED <<grid, terrain, query, pc, locals, is_valid_calls, result,
                   api_grid, sa_planner>>

\* agent.py:132-143 deliver_packages(algorithm) called on the agent as
\* constructed
DeliverPackagesCall(algorithm) ==
    /\ pc = "agent"
    /\ mission.caller = "none"
    /\ mission' = Mission("deliver_packages", algorithm, <<>>, points, 1, 0,
                          "none")
    /\ pc' = "deliver"
    /\ UNCHANGED <<grid, terrain, moving_obstacles, query, locals,
                   is_valid_calls, result, api_grid, response, sa_planner,
                   agent>>

\* agent.py:145-146: 'for point_x, point_y in all_points' takes the next
\* point and calls plan_path_to
DeliverNextPoint ==
    /\ pc = "deliver"
    /\ mission.index <= Len(mission.all_points)
    /\ mission' = [mission EXCEPT !.goal = mission.all_points[mission.index],
                                  !.legs = @ + 1]
    /\ call_planner(mission.all_points[mission.index], mission.algorithm)
    /\ UNCHANGED <<grid, terrain, moving_obstacles, api_grid, response,
                   sa_planner, agent>>

\* agent.py:160: all_points is used up, 'return len(self.packages) == 0'
DeliverReturn ==
    /\ pc = "deliver"
    /\ mission.index > Len(mission.all_points)
    /\ mission' = [mission EXCEPT !.caller = "returned",
                       !.returned = IF Len(agent[1].packages) = 0 THEN "True"
                                    ELSE "False"]
    /\ pc' = "agent"
    /\ UNCHANGED <<grid, terrain, moving_obstacles, query, locals,
                   is_valid_calls, result, api_grid, response, sa_planner,
                   agent>>

\* agent.py:150: 'while not self.has_reached_goal(...)' ends
DeliverReached ==
    /\ pc = "execute"
    /\ has_reached_goal(agent[1], mission.goal)
    /\ mission' = [mission EXCEPT !.index = @ + 1]
    /\ pc' = "deliver"
    /\ UNCHANGED <<grid, terrain, moving_obstacles, query, locals,
                   is_valid_calls, result, api_grid, response, sa_planner,
                   agent>>

\* agent.py:150-158: one iteration of the while loop
\* an iteration whose fuel test lets an empty tank pass
DeliverStepBelowZero ==
    /\ pc = "execute"
    /\ ~has_reached_goal(agent[1], mission.goal)
    /\ agent' = <<execute_step(agent[1])>>
    /\ moving_obstacles' =
           IF execute_step_returns(agent[1])
           THEN update_moving_obstacles(moving_obstacles, 1).moving_obstacles
           ELSE moving_obstacles
    /\ response' = Response("execute_step", <<>>,
                            IF execute_step_returns(agent[1]) THEN "True"
                            ELSE "False")
    /\ IF ~execute_step_returns(agent[1]) \/ execute_step(agent[1]).fuel < 0
       THEN /\ mission' = [mission EXCEPT !.caller = "returned",
                                          !.returned = "False"]
            /\ pc' = "agent"
       ELSE UNCHANGED <<mission, pc>>
    /\ UNCHANGED <<grid, terrain, query, locals, is_valid_calls, result,
                   api_grid, sa_planner>>

DeliverStep ==
    /\ pc = "execute"
    /\ ~has_reached_goal(agent[1], mission.goal)
    /\ agent' = <<execute_step(agent[1])>>
    /\ moving_obstacles' =
           IF execute_step_returns(agent[1])
           THEN update_moving_obstacles(moving_obstacles, 1).moving_obstacles
           ELSE moving_obstacles
    /\ response' = Response("execute_step", <<>>,
                            IF execute_step_returns(agent[1]) THEN "True"
                            ELSE "False")
    /\ IF ~execute_step_returns(agent[1]) \/ out_of_fuel(execute_step(agent[1]))
       THEN /\ mission' = [mission EXCEPT !.caller = "returned",
                                          !.returned = "False"]
            /\ pc' = "agent"
       ELSE UNCHANGED <<mission, pc>>
    /\ UNCHANGED <<grid, terrain, query, locals, is_valid_calls, result,
                   api_grid, sa_planner>>

AgentNext ==
    \/ \E goal \in Cells, algorithm \in AgentAlgorithms :
           PlanPathToCall(goal, algorithm)
    \/ Planning
    \/ PlanPathToReturn
    \/ PlanPathToBeyond
    \/ ExecuteStepCall
    \/ \E algorithm \in AgentAlgorithms : DeliverPackagesCall(algorithm)
    \/ DeliverNextPoint
    \/ DeliverReturn
    \/ DeliverReached
    \/ DeliverStep

AgentSpec == AgentInit /\ [][AgentNext]_vars

---------------------------------------------------------------------------
(* What the claims speak of: the feasible move sequences of a query *)

Start == <<query.start_x, query.start_y>>
Goal == <<query.goal_x, query.goal_y>>

\* one orthogonal step apart
Adjacent(p, c) == abs(p[1] - c[1]) + abs(p[2] - c[2]) = 1

\* the cell is inside the grid, not a static obstacle, and no moving obstacle
\* is predicted on it at time step t
Enterable(x, y, t) ==
    /\ x \in Xs /\ y \in Ys
    /\ grid[y][x] # OBSTACLE
    /\ \A i \in 1 .. Len(moving_obstacles) :
          get_position_at_time(moving_obstacles[i], t) # <<x, y>>

Least(S) == CHOOSE m \in S : \A n \in S : m <= n

\* from the least costs of the feasible sequences of k - 1 moves (a set of
\* <<cell they end in, least cost>>), those of the feasible sequences of k moves
CheapestNext(prev, k) ==
    LET into(c) == {e[2] : e \in {d \in prev : Adjacent(d[1], c)}}
        reached == {c \in Cells : /\ Enterable(c[1], c[2], query.start_time + k)
                                  /\ into(c) # {}}
    IN  {<<c, Least(into(c)) + terrain[c[2]][c[1]]>> : c \in reached}

\* the least cost of a feasible sequence of k .. K moves from the start to the
\* goal, given the least costs 'layer' after k moves and the least cost 'best'
\* found with fewer moves (-1: none)
RECURSIVE CheapestFrom(_, _, _, _)
CheapestFrom(k, K, layer, best) ==
    LET at_goal == {e[2] : e \in {d \in layer : d[1] = Goal}}
        here == IF at_goal # {} /\ (best = -1 \/ Least(at_goal) < best)
                THEN Least(at_goal) ELSE best
    IN  IF k >= K \/ layer = {} THEN here
        ELSE CheapestFrom(k + 1, K, CheapestNext(layer, k + 1), here)

\* the least cost of a feasible sequence of at most K moves (-1: there is none)
MinCost(K) == CheapestFrom(0, K, {<<Start, 0>>}, -1)

\* the least number of moves of a feasible sequence of at most K moves from
\* the start to the goal (-1: there is none)
RECURSIVE FewestFrom(_, _, _)
FewestFrom(k, K, layer) ==
    IF \E e \in layer : e[1] = Goal THEN k
    ELSE IF k >= K \/ layer = {} THEN -1
    ELSE FewestFrom(k + 1, K, CheapestNext(layer, k + 1))

MinMoves(K) == FewestFrom(0, K, {<<Start, 0>>})

\* the product of the waypoint counts: after so many time steps every moving
\* obstacle is where it was
RECURSIVE PeriodFrom(_)
PeriodFrom(i) ==
    IF i > Len(moving_obstacles) THEN 1
    ELSE Len(moving_obstacles[i].path) * PeriodFrom(i + 1)

\* a feasible sequence that reaches the goal can be cut down to one of fewer
\* moves than there are (cell, phase) pairs, so this decides reachability
ReachHorizon == Cardinality(Cells) * PeriodFrom(1)
GoalReachable == MinMoves(ReachHorizon) # -1

returned(a) == result[a].status = "returned"
found(a) == returned(a) /\ result[a].node # <<>>
node_of(a) == result[a].node[1]

---------------------------------------------------------------------------
(* The claims *)

\* C1: when UCSPlanner.plan returns a node, its cost is the least sum of
\* terrain costs of the entered cells over all feasible sequences of cardinal
\* moves from the start to the goal.  Every move costs at least 1, so no
\* sequence of more moves than the returned cost is cheaper.
C1_UCSOptimal ==
    (pc = "sa_call" /\ found("ucs")) =>
        node_of("ucs").cost = MinCost(node_of("ucs").cost)

\* a query on mixed terrain with the patrol where the cheapest path is not a
\* shortest one, answered by UCS
C1_Witness ==
    /\ pc = "sa_call" /\ found("ucs") /\ found("bfs")
    /\ moving_obstacles # <<>>
    /\ terrain = MixedTerrain
    /\ Len(get_path(node_of("ucs"))) > Len(get_path(node_of("bfs")))

\* C2: whenever UCSPlanner and AStarPlanner (Manhattan heuristic) both return
\* a node for a query, the two nodes have the same cost.
C2_AStarCostEqualsUCS ==
    (pc = "sa_seed" /\ found("ucs") /\ found("astar")) =>
        node_of("astar").cost = node_of("ucs").cost

\* C3: when BFSPlanner.plan returns a node, its path has the fewest moves of
\* all feasible sequences of cardinal moves from the start to the goal.
C3_BFSFewestMoves ==
    (pc = "ucs_call" /\ found("bfs")) =>
        Len(get_path(node_of("bfs"))) - 1 = MinMoves(depth(node_of("bfs")))

\* BFS answers a query where the patrol makes the fewest moves more than the
\* Manhattan distance
C3_Witness ==
    /\ pc = "ucs_call" /\ found("bfs")
    /\ moving_obstacles # <<>>
    /\ Len(get_path(node_of("bfs"))) - 1
          > manhattan_distance(Start[1], Start[2], Goal[1], Goal[2])

\* the waypoints begin at the start and end at the goal, consecutive waypoints
\* are one orthogonal step apart, and waypoint i (i >= 1, counting from 0)
\* satisfies Grid.is_valid at time step start_time + i
WellFormed(path) ==
    /\ path[1] = Start
    /\ path[Len(path)] = Goal
    /\ \A i \in 1 .. (Len(path) - 1) :
          /\ Adjacent(path[i], path[i + 1])
          /\ is_valid(path[i + 1][1], path[i + 1][2], query.start_time + i)

\* C4: every path returned by BFSPlanner, UCSPlanner or AStarPlanner begins at
\* the start, ends at the goal, moves one orthogonal step at a time, and its
\* waypoint i >= 1 is valid at time step start_time + i.
C4_PathsWellFormed ==
    \A a \in {"bfs", "ucs", "astar"} :
        found(a) => WellFormed(get_path(node_of(a)))

\* the three planners have answered a query that starts at time step 1 among
\* the patrol's moves with paths of three moves or more
C4_Witness ==
    /\ pc = "sa_seed"
    /\ moving_obstacles # <<>> /\ query.start_time = 1
    /\ \A a \in {"bfs", "ucs", "astar"} :
          found(a) /\ Len(get_path(node_of(a))) >= 4

\* consecutive waypoints are one orthogonal step apart and every waypoint
\* after the first is enterable at time step start_time + its index
Feasible(path) ==
    \A i \in 1 .. (Len(path) - 1) :
        /\ Adjacent(path[i], path[i + 1])
        /\ Enterable(path[i + 1][1], path[i + 1][2], query.start_time + i)

\* C5: whatever index, direction order and acceptance draw each iteration
\* takes, the path SimulatedAnnealingPlanner.plan works on and the path of the
\* node it returns have every consecutive pair of waypoints one orthogonal
\* step apart and every waypoint after the first enterable at its time step.
C5_SAPathsFeasible ==
    /\ pc = "sa" => Feasible(current_path)
    /\ found("sa") => Feasible(get_path(node_of("sa")))

\* Simulated Annealing returns, among the patrol's moves, a path that is not
\* the one A* seeded it with
C5_Witness ==
    /\ pc = "done" /\ found("sa") /\ found("astar")
    /\ moving_obstacles # <<>>
    /\ get_path(node_of("sa")) # get_path(node_of("astar"))

\* C6: on a grid of one uniform terrain cost c without moving obstacles, for
\* a reachable goal, BFS, UCS and A* return paths with the same number of
\* waypoints n, and the costs of the UCS and A* nodes are (n - 1) * c.
C6_UniformTerrain ==
    \A c \in TerrainType :
        (/\ pc = "sa_seed"
         /\ terrain = UniformTerrain(c) /\ moving_obstacles = <<>>
         /\ GoalReachable)
        => /\ \A a \in {"bfs", "ucs", "astar"} :
                 found(a) \/ result[a].status = "beyond"
           /\ (found("bfs") /\ found("ucs") /\ found("astar")) =>
                 LET n == Len(get_path(node_of("bfs")))
                 IN  /\ Len(get_path(node_of("ucs"))) = n
                     /\ Len(get_path(node_of("astar"))) = n
                     /\ node_of("ucs").cost = (n - 1) * c
                     /\ node_of("astar").cost = (n - 1) * c

\* corner to corner around the middle obstacle of the all-water grid
C6_Witness ==
    /\ pc = "sa_seed"
    /\ terrain = UniformTerrain(WATER) /\ moving_obstacles = <<>>
    /\ grid = WithObstacles(Centre)
    /\ Start = <<0, 0>> /\ Goal = <<Width - 1, Height - 1>>
    /\ found("bfs") /\ found("astar") /\ found("ucs")
    /\ node_of("ucs").cost = (Width + Height - 2) * WATER

\* C7: when start equals goal, no neighbour is ever enqueued or
\* validity-checked (the frontier and the visited set never hold more than the
\* start), and each of BFS, UCS, A* and Simulated Annealing returns a node of
\* cost 0 whose path is the single waypoint start.
C7_StartIsGoal ==
    Start = Goal =>
        /\ Len(queue) <= 1 /\ Len(priority_queue) <= 1
        /\ visited \subseteq {start_key}
        /\ is_valid_calls = 0
        /\ pc = "done" => \A a \in Algorithms : returned(a)
        /\ \A a \in Algorithms :
              /\ result[a].status # "beyond"
              /\ returned(a) =>
                    /\ result[a].node # <<>>
                    /\ node_of(a).cost = 0
                    /\ get_path(node_of(a)) = <<Start>>
                    /\ result[a].calls = 0

\* the four planners have answered a query whose start is its goal, on mixed
\* terrain with the patrol
C7_Witness ==
    /\ pc = "done" /\ Start = Goal
    /\ moving_obstacles # <<>> /\ terrain = MixedTerrain
    /\ \A a \in Algorithms : found(a)

at_goal(a) == found(a) /\ node_of(a).x = query.goal_x /\ node_of(a).y = query.goal_y

\* the cheapest feasible sequence to the goal costs less than MaxDepth; every
\* move costs at least 1, so it has fewer than MaxDepth moves
CheaplyReachable == MinCost(MaxDepth - 1) \in 0 .. (MaxDepth - 1)

\* C8: the session comes to its end, and whenever some feasible sequence of
\* cardinal moves reaches the goal, each of BFS, UCS, A* and Simulated
\* Annealing has then returned a node at the goal; a call is left unfinished
\* only if it dequeued a node MaxDepth moves from the start and the goal
\* cannot be reached at a cost below MaxDepth.
C8_Completeness ==
    <>(/\ pc = "done"
       /\ GoalReachable =>
             \A a \in Algorithms :
                 \/ at_goal(a)
                 \/ result[a].status = "beyond" /\ ~CheaplyReachable)

\* the four planners have returned a node at the goal of a query that starts
\* at time step 1 among the patrol's moves, away from the goal
C8_Witness ==
    /\ pc = "done" /\ Start # Goal
    /\ moving_obstacles # <<>> /\ query.start_time = 1
    /\ \A a \in Algorithms : at_goal(a)

\* C9: when no feasible sequence of cardinal moves reaches the goal, each of
\* BFS, UCS and A* empties its frontier and returns None: the call is never
\* still dequeuing nodes MaxDepth moves from the start, and never returns a
\* node.
C9_UnreachableReturnsNone ==
    \A a \in {"bfs", "ucs", "astar"} :
        (result[a].status = "beyond" \/ found(a)) => GoalReachable

OutOfBounds(x, y) == ~(0 <= x /\ x < Width /\ 0 <= y /\ y < Height)
StaticObstacle(x, y) == grid[y][x] = OBSTACLE
Predicted(x, y, t) ==
    \E i \in 1 .. Len(moving_obstacles) :
        get_position_at_time(moving_obstacles[i], t) = <<x, y>>

\* the time steps of one round of the moving obstacles and the wrap to the next
ProbeTimes == 0 .. (PeriodFrom(1) + MaxStartTime)

\* C10: Grid.is_valid(x, y, t) is False if (x, y) is outside the grid, False
\* if the cell is a static obstacle, False if a moving obstacle's predicted
\* position at t is (x, y), and True in every other case.
C10_IsValid ==
    \A x \in -1 .. Width, y \in -1 .. Height, t \in ProbeTimes :
        IF OutOfBounds(x, y) THEN ~is_valid(x, y, t)
        ELSE IF StaticObstacle(x, y) THEN ~is_valid(x, y, t)
        ELSE IF Predicted(x, y, t) THEN ~is_valid(x, y, t)
        ELSE is_valid(x, y, t)

\* the first expansion of BFS has called is_valid on the four neighbours of
\* the start: one outside the grid, one a static obstacle, one where the
\* patrol is predicted, one free
C10_Witness ==
    /\ pc = "bfs" /\ is_valid_calls = Len(get_all)
    /\ \E p \in Shuffles :
          LET nx(i) == query.start_x + get_all[p[i]][1]
              ny(i) == query.start_y + get_all[p[i]][2]
              t == query.start_time + 1
          IN  /\ OutOfBounds(nx(1), ny(1))
              /\ ~OutOfBounds(nx(2), ny(2)) /\ StaticObstacle(nx(2), ny(2))
              /\ ~OutOfBounds(nx(3), ny(3)) /\ ~StaticObstacle(nx(3), ny(3))
              /\ Predicted(nx(3), ny(3), t) /\ ~is_valid(nx(3), ny(3), t)
              /\ is_valid(nx(4), ny(4), t)

---------------------------------------------------------------------------
(* What the claims speak of: the moving obstacles of the session *)

\* the moving obstacles of the grid of the session
obstacles == IF api_grid = <<>> THEN <<>> ELSE api_grid[1].moving_obstacles

\* a moving obstacle with a waypoint and a speed of at least one tick
Patrolling(obstacle) == Len(obstacle.path) >= 1 /\ obstacle.speed >= 1

\* the obstacle after k calls of move()
RECURSIVE moved(_, _)
moved(obstacle, k) == IF k = 0 THEN obstacle ELSE moved(move(obstacle), k - 1)

position(obstacle) == <<obstacle.x, obstacle.y>>

\* C11: for every moving obstacle with at least one waypoint and a speed of
\* at least 1, whatever its current index and step counter, and every offset
\* k >= 0, get_position_at_time(k) is the position of the obstacle after k
\* calls of move()
C11_PredictionAgreesWithStepping ==
    \A i \in 1 .. Len(obstacles) :
        Patrolling(obstacles[i]) =>
            \A k \in 0 .. MaxOffset :
                get_position_at_time(obstacles[i], k)
                    = position(moved(obstacles[i], k))

\* C12: in every state of a moving obstacle, from its construction with any
\* x, y and path on and after any number of move() calls,
\* get_position_at_time(0) is the obstacle's current position (x, y)
C12_OffsetZeroIsPosition ==
    \A i \in 1 .. Len(obstacles) :
        Len(obstacles[i].path) >= 1 =>
            get_position_at_time(obstacles[i], 0) = position(obstacles[i])

\* path_length * speed
period(obstacle) == Len(obstacle.path) * obstacle.speed

\* C13: the predictions of every moving obstacle that has a waypoint repeat
\* with period path_length * speed: get_position_at_time(k + period) equals
\* get_position_at_time(k) for every offset k >= 0
C13_PredictionsPeriodic ==
    \A i \in 1 .. Len(obstacles) :
        Len(obstacles[i].path) >= 1 =>
            \A k \in 0 .. MaxOffset :
                get_position_at_time(obstacles[i], k + period(obstacles[i]))
                    = get_position_at_time(obstacles[i], k)

\* an obstacle between two distinct waypoints, at speed 2, that has advanced
C13_Witness ==
    \E i \in 1 .. Len(obstacles) :
        /\ Len(obstacles[i].path) = 2
        /\ obstacles[i].path[1] # obstacles[i].path[2]
        /\ obstacles[i].speed = 2
        /\ obstacles[i].current_step = 1

---------------------------------------------------------------------------
(* What the claims speak of: the world around a plan() call *)

\* C14: no step of plan(), of any of the four planners, changes the Grid:
\* its cells, its terrain and the x, y, current_step and step_counter of
\* every moving obstacle stay as they were (width and height are fixed)
C14_PlanningReadsOnly == [][UNCHANGED <<grid, terrain, moving_obstacles>>]_vars

\* the four calls have returned in a world whose moving obstacle stands
\* where it was constructed
C14_Witness ==
    /\ pc = "done"
    /\ \A a \in Algorithms : found(a)
    /\ moving_obstacles = <<Patrol>>

\* the costs along the parent chain of a node add up: the root costs 0, every
\* other node its parent's cost plus the terrain cost of its own cell
RECURSIVE costs_add_up(_)
costs_add_up(node) ==
    IF node.parent = <<>> THEN node.cost = 0
    ELSE /\ node.cost = node.parent[1].cost + terrain[node.y][node.x]
         /\ costs_add_up(node.parent[1])

\* C15: in the parent chain of the node returned by any of BFS, UCS, A* and
\* Simulated Annealing the root's cost is 0 and every other node's cost is
\* its parent's cost plus Grid.get_cost of its cell
C15_SharedCostModel ==
    \A a \in Algorithms : found(a) => costs_add_up(node_of(a))

---------------------------------------------------------------------------
(* What the claims speak of: configuration errors *)

\* C16: a Grid of non-positive width or height is rejected: create_grid
\* answers such dimensions with status "error", and the session never holds
\* a Grid whose width or height is below 1
C16_NonPositiveGridRejected ==
    /\ (response.call = "create_grid"
            /\ (response.args[1] <= 0 \/ response.args[2] <= 0))
          => response.status = "error"
    /\ api_grid # <<>> => api_grid[1].width >= 1 /\ api_grid[1].height >= 1

\* C17: a MovingObstacle with an empty path or a speed below 1 and a
\* SimulatedAnnealingPlanner with a cooling rate outside (0, 1) are rejected
\* at construction: no such obstacle is in the Grid, no such planner exists,
\* and no later call fails because of one
C17_ConfigurationErrorsSurface ==
    /\ \A i \in 1 .. Len(obstacles) : Patrolling(obstacles[i])
    /\ sa_planner # <<>> =>
           0 < sa_planner[1].cooling_rate /\ sa_planner[1].cooling_rate < 1000
    /\ response.status # "ZeroDivisionError"

---------------------------------------------------------------------------
(* What the claims speak of: Simulated Annealing and its A* seed *)

\* C18: SimulatedAnnealingPlanner.plan returns None exactly when
\* AStarPlanner.plan returns None for the same world and query, and it then
\* makes no perturbation iteration (no iteration, no cooling, no is_valid
\* call after the seed's); otherwise it returns a node
C18_SANoneIffSeedNone ==
    returned("sa") =>
        /\ returned("astar")
        /\ result["sa"].node = <<>> <=> result["astar"].node = <<>>
        /\ result["sa"].node = <<>> =>
               /\ iteration = 0
               /\ coolings = 0
               /\ result["sa"].calls = result["astar"].calls

\* both calls returned None, A* after asking is_valid about the neighbours
C18_Witness ==
    /\ returned("sa")
    /\ result["sa"].node = <<>>
    /\ result["astar"].node = <<>>
    /\ result["astar"].calls > 0

---------------------------------------------------------------------------
(* What the claims speak of: the agent on its route *)

the_agent == agent[1]
here == <<the_agent.x, the_agent.y>>

\* a step of the agent was executed, and it was the last call
stepped == response.call = "execute_step" /\ response.status = "True"

\* C19: fuel does not enter planning, the agent reports its lack:
\* plan_path_to answers True exactly when the goal can be reached, whatever
\* the fuel, and deliver_packages returns False as soon as an executed step
\* leaves fuel <= 0, so it neither goes on nor returns True on an empty tank
C19_FuelFailureByAgent ==
    /\ (response.call = "plan_path_to" /\ pc \in {"agent", "execute"})
          => (response.status = "True" <=> GoalReachable)
    /\ (mission.caller = "deliver_packages" /\ stepped) => the_agent.fuel > 0
    /\ (mission.returned = "True" /\ stepped) => the_agent.fuel > 0

\* deliver_packages returned False on open water with the route planned and
\* not walked to its end, the tank empty
C19_Witness ==
    /\ mission.returned = "False"
    /\ terrain = UniformTerrain(WATER)
    /\ stepped
    /\ the_agent.fuel <= 0
    /\ the_agent.current_step < Len(the_agent.path)

\* the last plan_path_to returned True
route_planned ==
    /\ mission.legs >= 1
    /\ pc \in {"agent", "execute", "deliver"}
    /\ planned.status = "returned"
    /\ planned.node # <<>>

\* what holds of the route once plan_path_to(goal) returned True from a
\* position other than the goal, given what is asked of the path as planned:
\* agent.path is not empty, execute_step returns True and puts the agent on
\* the next waypoint as long as waypoints are left, and after the last of
\* them the agent is at the goal
walks_route(as_planned) ==
    (route_planned /\ Start # Goal) =>
        /\ Len(the_agent.path) > 0
        /\ the_agent.current_step = 0 => here = Start /\ as_planned
        /\ the_agent.current_step >= 1 =>
               here = the_agent.path[the_agent.current_step]
        /\ (response.call = "execute_step" /\ response.status = "False") =>
               the_agent.current_step = Len(the_agent.path)
        /\ the_agent.current_step = Len(the_agent.path) => here = Goal

\* C20 as stated: after plan_path_to(goal) returned True from a position
\* other than the goal, agent.path is not empty and the current position is
\* not among its waypoints, each of the next len(path) execute_step calls
\* returns True and moves the agent to the next waypoint, and after them the
\* agent is at the goal
C20_PlanThenExecute ==
    walks_route(\A i \in 1 .. Len(the_agent.path) : the_agent.path[i] # here)

\* C20 amended: the same with agent.path being the planner's path without
\* its first waypoint, so that it begins with a neighbour of the current
\* position; the current position may come back later in the path, where the
\* route steps aside for a moving obstacle
C20_PlanThenExecuteFromNext ==
    walks_route(/\ the_agent.path = Tail(get_path(planned.node[1]))
                /\ Adjacent(the_agent.path[1], here))

\* the agent walked a route of several waypoints to its end, called one step
\* at a time
C20_Witness ==
    /\ route_planned
    /\ mission.caller = "direct"
    /\ Start # Goal
    /\ Len(the_agent.path) >= 3
    /\ the_agent.current_step = Len(the_agent.path)
    /\ stepped

---------------------------------------------------------------------------
(* What the claims speak of: the frontier and the visited set *)

\* the time-expanded state of a node
key(node) == <<node.x, node.y, node.time_step>>

\* C21: UCS marks a state (x, y, t) visited when it pops it, not when it
\* enqueues it: no successor that waits in the priority queue is in the
\* visited set
\* (so that a state of the frontier can be inserted again at a lower cost and
\* the stale entry skipped when popped)
C21_UCSMarksAtPop ==
    pc = "ucs" =>
        \A i \in 1 .. Len(priority_queue) :
            priority_queue[i].parent # <<>> =>
                key(priority_queue[i]) \notin visited

\* the nodes a step of BFS put into the queue: what follows the nodes that
\* were waiting behind the head
enqueued == SubSeq(queue', Len(queue), Len(queue'))

\* C22: BFS marks a triple (x, y, time step) visited the moment it enqueues
\* it: at every point of the search the triples of the queue are pairwise
\* distinct and in the visited set, and no step enqueues a triple that was
\* enqueued before (one already in the visited set, which only grows)
C22_BFSMarksAtEnqueue ==
    [][pc' = "bfs" =>
          /\ \A i, j \in 1 .. Len(queue') :
                 key(queue'[i]) = key(queue'[j]) => i = j
          /\ \A i \in 1 .. Len(queue') : key(queue'[i]) \in visited'
          /\ pc = "bfs" =>
                 /\ visited \subseteq visited'
                 /\ \A i \in 1 .. Len(enqueued) : key(enqueued[i]) \notin visited
                 /\ queue' = Tail(queue) \o enqueued]_vars

\* the queue holds several nodes, all of them marked, while the search has
\* dequeued nodes
C22_Witness ==
    /\ pc = "bfs"
    /\ Len(queue) >= 3
    /\ Cardinality(visited) > Len(queue) + 1
    /\ \A i \in 1 .. Len(queue) : key(queue[i]) \in visited

---------------------------------------------------------------------------
(* What the claims speak of: the refiner's loop *)

\* C23: the path Simulated Annealing returns is the best it held: its cost is
\* the least of the costs of the paths that were current_path during the run,
\* the first of which is the A* seed, so it never costs more than the seed
C23_SAReturnsBest ==
    (found("sa") /\ found("astar")) =>
        /\ node_of("sa").cost <= node_of("astar").cost
        /\ pc = "done" => node_of("sa").cost <= current_cost

\* the sum of the terrain costs of the cells a path enters
RECURSIVE entered_cost(_, _)
entered_cost(path, i) ==
    IF i > Len(path) THEN 0
    ELSE terrain[path[i][2]][path[i][1]] + entered_cost(path, i + 1)

\* C24: in any iteration a feasible candidate path that costs less than
\* current_path always replaces it; a feasible candidate that costs as much
\* or more replaces it exactly when the Metropolis test random() <
\* exp((current_cost - new_cost) / temperature) passes, which is certain for
\* an equal cost and open (draw) for a higher one; a candidate that is not
\* feasible never replaces it
C24_AcceptanceRule ==
    (pc = "sa" /\ iteration < MaxIterations /\ Len(current_path) > 2) =>
        \A c \in sa_candidates, draw \in BOOLEAN :
            LET outcome == sa_outcome(c[1], c[2], c[3], draw)
                new_cost == entered_cost(c[2], 2)
                kept == /\ outcome.current_path = current_path
                        /\ outcome.current_cost = current_cost
                taken == /\ outcome.current_path = c[2]
                         /\ outcome.current_cost = new_cost
            IN  IF ~Feasible(c[2]) THEN kept
                ELSE IF new_cost < current_cost THEN taken
                ELSE IF new_cost = current_cost \/ draw THEN taken
                ELSE kept

\* an iteration took a candidate that costs more than the seed
C24_Witness ==
    /\ pc = "sa"
    /\ iteration >= 1
    /\ found("astar")
    /\ current_cost > node_of("astar").cost

\* C25: the temperature is multiplied by the cooling rate once after every
\* iteration of the loop, whether or not the iteration changed the path, so
\* that after n iterations it is initial_temp * cooling_rate^n: the number of
\* coolings is the number of iterations made
C25_CoolingSchedule == pc \in {"sa", "done"} => coolings = iteration

\* the loop ran to its last iteration and left the seed path as it was
C25_Witness ==
    /\ pc = "sa"
    /\ iteration = MaxIterations
    /\ coolings = MaxIterations
    /\ found("astar")
    /\ current_path = get_path(node_of("astar"))
    /\ Len(current_path) > 2

---------------------------------------------------------------------------
(* What the claims speak of: one step of the agent *)

\* a step of the session that is a call of execute_step
execute_step_called ==
    /\ response'.call = "execute_step"
    /\ response' # response \/ agent' # agent

\* C26: a call of execute_step that returns True puts the agent on the next
\* waypoint, takes exactly that cell's terrain cost from the fuel, adds one to
\* current_step and calls move() once on every moving obstacle; a call that
\* returns False leaves position, fuel, current_step, packages and the
\* obstacles as they were
C26_StepAdvancesOnce ==
    [][execute_step_called =>
          IF response'.status = "True"
          THEN /\ the_agent.current_step < Len(the_agent.path)
               /\ <<the_agent.x, the_agent.y>>' =
                      the_agent.path[the_agent.current_step + 1]
               /\ the_agent.fuel' =
                      the_agent.fuel - terrain[the_agent.y'][the_agent.x']
               /\ the_agent.current_step' = the_agent.current_step + 1
               /\ the_agent.path' = the_agent.path
               /\ moving_obstacles' =
                      [i \in 1 .. Len(moving_obstacles) |-> move(moving_obstacles[i])]
          ELSE /\ agent' = agent
               /\ moving_obstacles' = moving_obstacles]_vars

\* a step was made next to the patrol, which moved on with it, and a call
\* after the last waypoint was answered False
C26_Witness ==
    /\ response.call = "execute_step"
    /\ response.status = "False"
    /\ the_agent.current_step >= 2
    /\ moving_obstacles # <<>>
    /\ moving_obstacles[1].current_step # 0

\* C27: after every execute_step that returned True, in a direct session or
\* inside deliver_packages, on the first leg and on later ones, the agent's
\* cell is not the position of any moving obstacle
C27_CollisionFree ==
    stepped =>
        \A i \in 1 .. Len(moving_obstacles) : position(moving_obstacles[i]) # here

\* the path of the A* seed of the running Simulated Annealing call
seed_path == get_path(node_of("astar"))

\* as many waypoints as the seed, from the start to the goal
same_shape(path) ==
    /\ Len(path) = Len(seed_path)
    /\ path[1] = Start
    /\ path[Len(path)] = Goal

\* C28: the refiner rewrites interior waypoints only: before and after every
\* iteration, and in the node it returns, the path has as many waypoints as
\* the A* seed, begins with the start and ends with the goal; for a seed of 2
\* or fewer waypoints no iteration is made and the returned path is the A*
\* path
C28_InteriorOnly ==
    /\ pc = "sa" => same_shape(current_path)
    /\ (found("sa") /\ found("astar")) =>
          /\ same_shape(get_path(node_of("sa")))
          /\ get_path(node_of("sa")) = current_path
          /\ Len(seed_path) <= 2 =>
                /\ iteration = 0
                /\ get_path(node_of("sa")) = seed_path

\* a path of four waypoints or more came back after the last iteration with
\* an interior waypoint other than the seed's
C28_Witness ==
    /\ found("sa") /\ found("astar")
    /\ Len(seed_path) >= 4
    /\ iteration = MaxIterations
    /\ get_path(node_of("sa")) # seed_path

\* a call whose seed has two waypoints came back without an iteration
C28_WitnessShortSeed ==
    /\ found("sa") /\ found("astar")
    /\ Len(seed_path) = 2
    /\ iteration = 0

\* the grid read back from the file the session's grid is saved to
loaded_grid == load_from_file(save_to_file(self_grid))

\* the same dimensions, static obstacles, terrain costs, and paths and speeds
\* of the moving obstacles
same_configuration(saved, loaded) ==
    /\ loaded.width = saved.width
    /\ loaded.height = saved.height
    /\ loaded.grid = saved.grid
    /\ loaded.terrain = saved.terrain
    /\ Len(loaded.moving_obstacles) = Len(saved.moving_obstacles)
    /\ \A i \in 1 .. Len(saved.moving_obstacles) :
           /\ loaded.moving_obstacles[i].path = saved.moving_obstacles[i].path
           /\ loaded.moving_obstacles[i].speed = saved.moving_obstacles[i].speed

\* the same answers of is_valid and get_cost for every cell and time step
same_answers(saved, loaded) ==
    \A c \in Cells :
        /\ loaded.terrain[c[2]][c[1]] = saved.terrain[c[2]][c[1]]
        /\ \A t \in 0 .. MaxOffset :
               is_valid_on(loaded, c[1], c[2], t) = is_valid_on(saved, c[1], c[2], t)

\* the part of the round trip about the stored configuration
SavedConfigurationComesBack == same_configuration(self_grid, loaded_grid)

\* C29: whatever setup operations and agent steps the grid of the session has
\* been through, save_to_file followed by load_from_file gives a grid with
\* the same width, height, static obstacles, terrain costs, paths and speeds
\* of the moving obstacles, and with the same answers of is_valid(x, y, t)
\* and get_cost(x, y) for every cell and time step
C29_RoundTrip ==
    /\ same_configuration(self_grid, loaded_grid)
    /\ same_answers(self_grid, loaded_grid)

\* C30: in every step of a session of add_package, add_destination,
\* plan_path_to, execute_step and deliver_packages, delivered_packages is 0
\* before and after (the delivery branch of execute_step is never taken); the
\* list of packages changes only in an execute_step that returns True and
\* ends on the cell of a package, which loses its first entry for that cell;
\* and deliver_packages has returned True only with an empty list of packages
C30_DeliveryBookkeeping ==
    [][/\ the_agent.delivered_packages = 0
       /\ the_agent.delivered_packages' = 0
       /\ the_agent.packages' # the_agent.packages =>
              /\ execute_step_called
              /\ response'.status = "True"
              /\ contains(the_agent.packages, here')
              /\ the_agent.packages' = remove(the_agent.packages, here')
       /\ mission'.returned = "True" => the_agent.packages' = <<>>]_vars

\* deliver_packages went to a package, picked it up, went on to the
\* destination and returned True
C30_Witness ==
    /\ mission.returned = "True"
    /\ Len(mission.all_points) = 2
    /\ mission.all_points[1] # mission.all_points[2]
    /\ the_agent.destinations = <<mission.all_points[2]>>
    /\ here = mission.all_points[2]
    /\ the_agent.packages = <<>>
    /\ the_agent.delivered_packages = 0

====
